---- MODULE Spec2Model ----
(***************************************************************************)
(* A model of brown's scene graph (brown/core/graphic_object.py): the      *)
(* parent/children tree of GraphicObjects under the root Document, the     *)
(* queries over it (all_descendants, frame, is_in_flowable,                *)
(* map_between_items) and render(), with the break-splitting algorithm of  *)
(* _render_flowable over a FlowableFrame's line controllers. Two value      *)
(* types are modelled beside it: AnchoredPoint's arithmetic                *)
(* (brown/utils/anchored_point.py) and Interval (brown/models/interval.py).*)
(***************************************************************************)
EXTENDS Integers, Sequences, FiniteSets, TLC

\* ------------------------------------------------------------------ bounds
\* Objects are numbered 0..NumObjects; object 0 is the one constructed as a
\* FlowableFrame.
NumObjects == 3
\* The largest number of line controllers a frame is laid out with.
MaxLines == 3
\* The largest breakable_width an object is constructed with.
MaxWidth == 7
\* The number of render() calls a behaviour makes at most.
MaxRenders == 2
\* page.paper.live_width of the document's paper, in units.
LiveWidth == 3
\* How many lines the layout puts on one page, and the y distance of two
\* lines of a page.
LinesPerPage == 2
LineSpacing == 5

\* --------------------------------------------------------- encoded values
\* brown.document, the process-wide root Document
Doc == -1
\* Python's None
None == -2
\* the attribute _parent is not set yet (hasattr(self, '_parent') is False)
Unset == -3
\* the while loop of `frame` never ends
Diverges == -4

Nodes == 0 .. NumObjects
Owners == Nodes \cup {Doc}

\* The depth of nested calls at which the interpreter raises RecursionError:
\* deeper than any tree of the objects that are rendered call by call.
RecursionLimit == NumObjects + 1

VARIABLES
    cls,                \* type(self).__name__ of each object
    parent,             \* GraphicObject._parent
    children,           \* GraphicObject._children, and the Document's
    pos,                \* GraphicObject._pos (x, y, page)
    breakable_width,    \* GraphicObject._breakable_width
    interfaces,         \* GraphicObject._interfaces
    layout_controllers, \* FlowableFrame.layout_controllers
    raised,             \* the exception the last operation ended with
    dispatched,         \* the _render_* calls of the last render(), per object
    invoked,            \* the objects the last render() reached, in order
    renders,            \* the number of render() calls made so far
    stack,              \* the render() calls in progress, innermost last
    anchored,           \* two AnchoredPoint operands and the last result
    interval            \* a specifier and the Interval constructed from it

vars == <<cls, parent, children, pos, breakable_width, interfaces,
          layout_controllers, raised, dispatched, invoked, renders,
          stack, anchored, interval>>

\* The state of the value types, which no scene graph operation touches.
valueVars == <<anchored, interval>>

\* ------------------------------------------------------------------ points
Point(px, py, pg) == [x |-> px, y |-> py, page |-> pg]

PointAdd(a, b) == Point(a.x + b.x, a.y + b.y, a.page + b.page)

PointSub(a, b) == Point(a.x - b.x, a.y - b.y, a.page - b.page)

PointNeg(a) == Point(0 - a.x, 0 - a.y, 0 - a.page)

Origin == Point(0, 0, 0)

\* No AnchoredPoint and no Interval has been made.
NoValue == [type |-> "NoneType"]

NoAnchored ==
    [self |-> NoValue, other |-> NoValue, op |-> "none", result |-> NoValue]

NoInterval == [specifier |-> <<>>, made |-> NoValue]

\* ------------------------------------------------------------ construction
Constructed == {n \in Nodes : parent[n] # Unset}

\* self.children.add(child)
register_child(ch, owner, child) ==
    [ch EXCEPT ![owner] = @ \cup {child}]

\* A setter that forgets to deregister: the old parent keeps the child.
unregister_child_forgotten(ch, owner, child) == ch

\* self.children.remove(child); the caller has checked membership
unregister_child(ch, owner, child) ==
    [ch EXCEPT ![owner] = @ \ {child}]

\* A setter that stores the parent only the first time.
parent_after_first_only(n, value) ==
    IF parent[n] # Unset THEN parent
    ELSE [parent EXCEPT ![n] = IF value = None THEN Doc ELSE value]

\* The parent setter's effect on (parent, children) when it does not raise.
parent_after(n, value) ==
    [parent EXCEPT ![n] = IF value = None THEN Doc ELSE value]

children_after(n, value) ==
    LET old == parent[n]
        removed == IF old # Unset
                   THEN unregister_child(children, old, n)
                   ELSE children
    IN register_child(removed, IF value = None THEN Doc ELSE value, n)

\* set.remove raises KeyError when the old parent does not list the object
parent_setter_raises(n) ==
    /\ parent[n] # Unset
    /\ n \notin children[parent[n]]

\* GraphicObject.parent = value, on a constructed object
SetParent(n, value) ==
    /\ n \in Constructed
    /\ value \in Constructed \cup {None}
    /\ IF parent_setter_raises(n)
       THEN /\ raised' = "KeyError"
            /\ UNCHANGED <<parent, children>>
       ELSE /\ raised' = "none"
            /\ parent' = parent_after(n, value)
            /\ children' = children_after(n, value)
    /\ UNCHANGED <<cls, pos, breakable_width, interfaces, layout_controllers,
                   dispatched, invoked, renders, stack, valueVars>>

\* --------------------------------------------- FlowableFrame and NewLine
\* A line controller is [pos |-> the page position of the line's top left
\* corner, local_x |-> where the line begins in the frame's local space].

\* NewLine.length: self.page.paper.live_width - self.pos.x
length(line) == LiveWidth - line.pos.x

\* The x positions a laid out line starts at on its page.
LineXs == {0, 1}

RECURSIVE local_x_of(_, _)
local_x_of(xs, i) ==
    IF i = 1 THEN 0 ELSE local_x_of(xs, i - 1) + (LiveWidth - xs[i - 1])

\* The controllers the frame's layout pass places for lines starting at xs:
\* contiguous in local x, the first at local x 0.
layout_of(xs) ==
    [i \in 1 .. Len(xs) |->
        [pos |-> Point(xs[i],
                       ((i - 1) % LinesPerPage) * LineSpacing,
                       (i - 1) \div LinesPerPage),
         local_x |-> local_x_of(xs, i)]]

Layouts == UNION {{layout_of(xs) : xs \in [1 .. k -> LineXs]} : k \in 1 .. MaxLines}

line_end(i) == layout_controllers[i].local_x + length(layout_controllers[i])

total_length ==
    IF layout_controllers = <<>> THEN 0 ELSE line_end(Len(layout_controllers))

\* OutOfBoundsError: local x is negative or exceeds the flowable length
out_of_bounds(local_x) ==
    \/ layout_controllers = <<>>
    \/ local_x < 0
    \/ local_x > total_length

\* FlowableFrame._last_break_index_at: the last controller with
\* local_x <= the given x
last_break_index_at(local_x) ==
    CHOOSE i \in 1 .. Len(layout_controllers) :
        /\ layout_controllers[i].local_x <= local_x
        /\ \A j \in 1 .. Len(layout_controllers) :
               layout_controllers[j].local_x <= local_x => j <= i

\* FlowableFrame._dist_to_line_end: negative while x is before its line's end
dist_to_line_end(local_x) == local_x - line_end(last_break_index_at(local_x))

\* FlowableFrame._map_to_doc: relative to the start of the point's line
map_to_doc(local) ==
    LET line == layout_controllers[last_break_index_at(local.x)]
    IN Point(line.pos.x + (local.x - line.local_x),
             line.pos.y + local.y,
             line.pos.page)

\* ---------------------------------------------------------------- queries
\* The owner k steps up the parent chain of m; None above the Document.
RECURSIVE ancestor_of(_, _)
ancestor_of(m, k) ==
    IF k = 0 THEN m
    ELSE IF m \notin Nodes \/ parent[m] = Unset THEN None
    ELSE ancestor_of(parent[m], k - 1)

RECURSIVE frame_walk(_, _)
frame_walk(ancestor, fuel) ==
    IF ancestor = Doc THEN None                    \* AttributeError
    ELSE IF cls[ancestor] = "FlowableFrame" THEN ancestor
    ELSE IF fuel = 0 THEN Diverges
    ELSE frame_walk(parent[ancestor], fuel - 1)

\* A walk that starts at the object instead of at its parent.
frame_from_self(n) == frame_walk(n, Cardinality(Nodes))

\* A walk that the Document does not end.
frame_past_document(n) ==
    IF frame_walk(parent[n], Cardinality(Nodes)) = None THEN Diverges
    ELSE frame_walk(parent[n], Cardinality(Nodes))

\* GraphicObject.frame
frame(n) == frame_walk(parent[n], Cardinality(Nodes))

\* GraphicObject.is_in_flowable; an endless walk gives no answer
is_in_flowable(n) == frame(n) # None

\* The sum of the local positions from n up to, not including, stop.
RECURSIVE chain_sum(_, _)
chain_sum(n, stop) ==
    IF n = stop THEN Origin ELSE PointAdd(pos[n], chain_sum(parent[n], stop))

\* FlowableFrame.pos_in_frame_of
pos_in_frame_of(n) ==
    LET p == PointAdd(pos[n], chain_sum(parent[n], frame(n)))
    IN Point(p.x, p.y, 0)

\* Document.doc_pos_of answers when the walk ends and, inside a frame, the
\* frame-local x is within the flowable length.
doc_pos_defined(n) ==
    /\ frame(n) # Diverges
    /\ frame(n) # None => ~out_of_bounds(pos_in_frame_of(n).x)

\* Document.doc_pos_of
doc_pos_of(n) ==
    IF frame(n) # None
    THEN map_to_doc(pos_in_frame_of(n))
    ELSE PointAdd(pos[n], chain_sum(parent[n], Doc))

\* A delta taken from the source's local position, not its document position.
map_between_items_local_source(source, destination) ==
    PointSub(doc_pos_of(destination), pos[source])

\* A delta with its operands exchanged.
map_between_items_swapped(source, destination) ==
    PointSub(doc_pos_of(source), doc_pos_of(destination))

\* GraphicObject.map_between_items
map_between_items(source, destination) ==
    PointSub(doc_pos_of(destination), doc_pos_of(source))

RECURSIVE Perms(_)
Perms(S) ==
    IF S = {} THEN {<<>>}
    ELSE UNION {{<<e>> \o p : p \in Perms(S \ {e})} : e \in S}

\* A pre-order generator: the child, then its children.
yield_child_first(child) == {<<child>> \o sub : sub \in Perms(children[child])}

\* The inner loop and the yield of one child: its children, then the child.
yield_child(child) == {sub \o <<child>> : sub \in Perms(children[child])}

RECURSIVE yield_all(_)
yield_all(order) ==
    IF order = <<>> THEN {<<>>}
    ELSE {one \o rest : one \in yield_child(Head(order)),
                        rest \in yield_all(Tail(order))}

\* GraphicObject.all_descendants: every sequence the generator can yield,
\* one for each iteration order of the sets involved.
all_descendants(n) == UNION {yield_all(order) : order \in Perms(children[n])}

\* ----------------------------------------------------------------- render
\* One call of a _render_* method: which one, its local_start_x, its start
\* and stop points (a _render_complete has its pos as both) and the index of
\* the line the algorithm is on when it makes the call (0 outside a frame).
Dispatch(op, local_start_x, start, stop, line) ==
    [op |-> op, local_start_x |-> local_start_x,
     start |-> start, stop |-> stop, line |-> line]

\* The x of a line controller that _render_flowable maps for the after-break
\* segment: the line's start in the frame's local space.
controller_x(line) == line.local_x

\* A test with the sign of remaining_x read the other way round.
fits_on_line_inverted(remaining_x) == remaining_x > 0

\* if remaining_x < Unit(0): the object fits on its line
fits_on_line(remaining_x) == remaining_x < 0

\* A loop test that also continues on a line the rest exactly fills.
spans_line_inclusive(remaining_x, line_length) == remaining_x >= line_length

\* if remaining_x > current_line.length: the rest does not fit on the line
spans_line(remaining_x, line_length) == remaining_x > line_length

\* A loop that forgets to take the line's length off.
after_line_forgotten(remaining_x, line_length) == remaining_x

\* remaining_x -= current_line.length
after_line(remaining_x, line_length) == remaining_x - line_length

\* A start taken from the line alone, without the object's own y.
spanning_start_unshifted(line, y) == line.pos

\* render_start_pos of a spanning continuation: the line's start, moved
\* down by the object's y in the frame
spanning_start(line, y) == Point(line.pos.x, line.pos.y + y, line.pos.page)

\* An offset that gives what is still to place instead of what is placed.
placed_from_remaining(w, remaining_x) == remaining_x

\* self.breakable_width - remaining_x: the local_start_x of a spanning
\* continuation and of the after-break
placed(w, remaining_x) == w - remaining_x

\* The for loop of _render_flowable from line i on and the after-break call
\* that follows it, for an object of breakable width w at frame-local y:
\* a spanning continuation on every line the rest does not fit on, then the
\* after-break on current_line, which is the line the loop broke on, else the
\* last line it reached (current), else the first line.
RECURSIVE rest_of_split(_, _, _, _, _)
rest_of_split(w, y, i, remaining_x, current) ==
    IF /\ i <= Len(layout_controllers)
       /\ spans_line(remaining_x, length(layout_controllers[i]))
    THEN LET line == layout_controllers[i]
             start == spanning_start(line, y)
             stop == PointAdd(start, Point(length(line), 0, 0))
         IN <<Dispatch("spanning_continuation", placed(w, remaining_x),
                       start, stop, i)>>
            \o rest_of_split(w, y, i + 1,
                             after_line(remaining_x, length(line)), i)
    ELSE LET current_i == IF i <= Len(layout_controllers) THEN i ELSE current
             current_line == layout_controllers[current_i]
             start == map_to_doc(Point(controller_x(current_line), y, 0))
             stop == PointAdd(start, Point(remaining_x, 0, 0))
         IN <<Dispatch("after_break", placed(w, remaining_x), start, stop,
                       current_i)>>

\* A start that leaves out where on its line the object begins.
remaining_without_line(w, dist) == w

\* remaining_x on entry: breakable_width + _dist_to_line_end(x)
remaining_on_entry(w, dist) == w + dist

\* The calls of _render_flowable for an object of breakable width w at the
\* frame-local point local (its x within the flowable length) and the
\* document position doc_pos.
flowable_calls(w, local, doc_pos) ==
    LET remaining_x == remaining_on_entry(w, dist_to_line_end(local.x))
        first_line_i == last_break_index_at(local.x)
        first_line_length == dist_to_line_end(local.x) * (-1)
        render_end_pos == PointAdd(doc_pos, Point(first_line_length, 0, 0))
    IN IF fits_on_line(remaining_x)
       THEN <<Dispatch("complete", 0, doc_pos, doc_pos, 0)>>
       ELSE <<Dispatch("before_break", 0, doc_pos, render_end_pos,
                       first_line_i)>>
            \o rest_of_split(w, local.y, first_line_i + 1, remaining_x,
                             first_line_i)

\* GraphicObject._render_flowable: the calls it makes, in order. (The
\* position values are bound once.)
render_flowable(n) ==
    CHOOSE calls \in {flowable_calls(breakable_width[n], local, doc_pos) :
                         local \in {pos_in_frame_of(n)},
                         doc_pos \in {doc_pos_of(n)}} : TRUE

\* Base methods that do nothing instead of raising.
implements_by_default(c, op) == TRUE

\* Whether class c overrides the _render_* method op. GraphicObject's own
\* four raise NotImplementedError; a CompleteOnlyObject is of a subclass
\* that overrides _render_complete alone, as one whose breakable_width is
\* meant to stay 0 may.
implements(c, op) ==
    IF c = "GraphicObject" THEN FALSE
    ELSE IF c = "CompleteOnlyObject" THEN op = "complete"
    ELSE TRUE

\* What is left of the calls an object of class c attempts: those before
\* the first one its class does not implement, which raises.
until_unimplemented(c, calls) ==
    LET missing == {i \in 1 .. Len(calls) : ~implements(c, calls[i].op)}
    IN IF missing = {} THEN [calls |-> calls, raised |-> "none"]
       ELSE [calls |-> SubSeq(calls, 1,
                              (CHOOSE i \in missing :
                                   \A j \in missing : i <= j) - 1),
             raised |-> "NotImplementedError"]

\* The calls the body of render() attempts for an object whose document
\* position exists.
attempted(n) ==
    IF frame(n) # None
    THEN render_flowable(n)
    ELSE <<Dispatch("complete", 0, doc_pos_of(n), doc_pos_of(n), 0)>>

\* A body that has made a call by the time the frame rejects the position.
render_one_checked_late(n) ==
    IF frame(n) # None /\ out_of_bounds(pos_in_frame_of(n).x)
    THEN [calls |-> <<Dispatch("before_break", 0, Origin, Origin, 0)>>,
          raised |-> "OutOfBoundsError"]
    ELSE CHOOSE r \in {until_unimplemented(cls[n], calls) :
                          calls \in {attempted(n)}} : TRUE

\* The body of render() for one object, before it recurses: the calls that
\* complete and the exception that ends it, if any.
render_one(n) ==
    IF frame(n) # None /\ out_of_bounds(pos_in_frame_of(n).x)
    THEN [calls |-> <<>>, raised |-> "OutOfBoundsError"]
    ELSE CHOOSE r \in {until_unimplemented(cls[n], calls) :
                          calls \in {attempted(n)}} : TRUE

\* A render() that does not go on to the children.
render_orders_without_children(n) == {<<n>>}

\* The orders in which render() can reach the objects below n: n, then the
\* subtrees of its children, the children in any order.
RECURSIVE render_orders(_)
RECURSIVE children_orders(_)
render_orders(n) ==
    UNION {{<<n>> \o rest : rest \in children_orders(order)} :
              order \in Perms(children[n])}

children_orders(order) ==
    IF order = <<>> THEN {<<>>}
    ELSE {a \o b : a \in render_orders(Head(order)),
                   b \in children_orders(Tail(order))}

\* The bodies of render() on the objects of an order, up to and including
\* the first that raises.
RECURSIVE bodies(_)
bodies(order) ==
    IF order = <<>> THEN <<>>
    ELSE LET ahead(one) == IF one.raised = "none"
                           THEN <<one>> \o bodies(Tail(order))
                           ELSE <<one>>
         IN CHOOSE b \in {ahead(one) : one \in {render_one(Head(order))}} : TRUE

\* A loop that takes each child off the set as it renders it.
children_consumed(ch, n) == [ch EXCEPT ![n] = {}]

\* for child in self.children: child.render() -- the children of n once the
\* loop is over: the loop reads the set and assigns nothing to it.
children_after_render(ch, n) == ch

\* The objects below n hold no cycle of parents, so the recursion ends.
finite_below(n) ==
    \A m \in Nodes : \A k \in 1 .. Cardinality(Nodes) :
        (\E j \in 0 .. Cardinality(Nodes) : ancestor_of(m, j) = n)
            => ancestor_of(m, k) # m

\* GraphicObject.render() on object n whose subtree is finite. The call ends
\* at the first object whose body raises; an implemented _render_* call
\* stores one interface in the object's interfaces.
Render(n) ==
    /\ n \in Constructed
    /\ renders < MaxRenders
    /\ finite_below(n)
    /\ \E order \in render_orders(n) : \E done \in {bodies(order)} :
          /\ invoked' = SubSeq(order, 1, Len(done))
          /\ dispatched' =
                 [m \in Nodes |->
                     IF \E i \in 1 .. Len(done) : order[i] = m
                     THEN done[CHOOSE i \in 1 .. Len(done) : order[i] = m].calls
                     ELSE <<>>]
          /\ raised' = done[Len(done)].raised
    /\ interfaces' =
           [m \in Nodes |->
               interfaces[m] \cup {[pass |-> renders + 1, call |-> i] :
                                      i \in 1 .. Len(dispatched'[m])}]
    /\ renders' = renders + 1
    /\ children' = children_after_render(children, n)
    /\ UNCHANGED <<cls, parent, pos, breakable_width, layout_controllers,
                   stack, valueVars>>

\* ------------------------------------------------------ render, by call
\* render() as the interpreter runs it, one call at a time. stack holds the
\* render() calls in progress: the object, whether the call is still in
\* its body or in its loop over the children, and the children the loop
\* has yet to reach.
Call(n, pc, todo) == [node |-> n, pc |-> pc, todo |-> todo]

Top == stack[Len(stack)]

Below == SubSeq(stack, 1, Len(stack) - 1)

\* some_object.render() called from outside, no render() being in progress
RenderCall(n) ==
    /\ n \in Constructed
    /\ stack = <<>>
    /\ renders < MaxRenders
    /\ stack' = <<Call(n, "body", {})>>
    /\ renders' = renders + 1
    /\ raised' = "none"
    /\ dispatched' = [m \in Nodes |-> <<>>]
    /\ invoked' = <<>>
    /\ UNCHANGED <<cls, parent, children, pos, breakable_width, interfaces,
                   layout_controllers, valueVars>>

\* The body of the innermost call: is_in_flowable, then _render_flowable or
\* _render_complete. While the loop of `frame` does not end there is no
\* such step. An exception ends every call in progress.
RenderBody ==
    /\ stack # <<>>
    /\ Top.pc = "body"
    /\ frame(Top.node) # Diverges
    /\ \E n \in {Top.node} : \E one \in {render_one(n)} :
          /\ invoked' = Append(invoked, n)
          /\ dispatched' = [dispatched EXCEPT ![n] = one.calls]
          /\ interfaces' =
                 [interfaces EXCEPT ![n] =
                     @ \cup {[pass |-> renders, call |-> i] :
                                i \in 1 .. Len(one.calls)}]
          /\ raised' = one.raised
          /\ stack' = IF one.raised # "none" THEN <<>>
                      ELSE Append(Below, Call(n, "children", children[n]))
    /\ UNCHANGED <<cls, parent, children, pos, breakable_width,
                   layout_controllers, renders, valueVars>>

\* for child in self.children: child.render() -- the next child's call
\* begins, or the interpreter refuses to nest deeper.
RenderChild ==
    /\ stack # <<>>
    /\ Top.pc = "children"
    /\ \E child \in Top.todo :
          IF Len(stack) >= RecursionLimit
          THEN /\ stack' = <<>>
               /\ raised' = "RecursionError"
          ELSE /\ stack' = Append(Below,
                                  Call(Top.node, "children",
                                       Top.todo \ {child}))
                            \o <<Call(child, "body", {})>>
               /\ UNCHANGED raised
    /\ UNCHANGED <<cls, parent, children, pos, breakable_width, interfaces,
                   layout_controllers, dispatched, invoked, renders,
                   valueVars>>

\* The loop over the children is over: the innermost call returns.
RenderReturn ==
    /\ stack # <<>>
    /\ Top.pc = "children"
    /\ Top.todo = {}
    /\ stack' = Below
    /\ children' = children_after_render(children, Top.node)
    /\ UNCHANGED <<cls, parent, pos, breakable_width, interfaces,
                   layout_controllers, raised, dispatched, invoked, renders,
                   valueVars>>

\* -------------------------------------------------------------- __init__
\* breakable_width if breakable_width else Unit(0)
width_or_zero(w) == IF w = None \/ w = 0 THEN 0 ELSE w

\* GraphicObject.__init__ of object n as an instance of class c
Construct(n, c, p, w, value, lines) ==
    /\ parent[n] = Unset
    /\ value \in Constructed \cup {None}
    /\ cls' = [cls EXCEPT ![n] = c]
    /\ pos' = [pos EXCEPT ![n] = p]
    /\ breakable_width' = [breakable_width EXCEPT ![n] = width_or_zero(w)]
    /\ parent' = parent_after(n, value)
    /\ children' = children_after(n, value)
    /\ interfaces' = [interfaces EXCEPT ![n] = {}]
    /\ layout_controllers' =
           IF c = "FlowableFrame" THEN lines ELSE layout_controllers
    /\ raised' = "none"
    /\ UNCHANGED <<dispatched, invoked, renders, stack, valueVars>>

\* ------------------------------------------------------------------- Init
Init ==
    /\ cls = [n \in Nodes |-> "unconstructed"]
    /\ parent = [n \in Nodes |-> Unset]
    /\ children = [o \in Owners |-> {}]
    /\ pos = [n \in Nodes |-> Origin]
    /\ breakable_width = [n \in Nodes |-> 0]
    /\ interfaces = [n \in Nodes |-> {}]
    /\ layout_controllers = <<>>
    /\ raised = "none"
    /\ dispatched = [n \in Nodes |-> <<>>]
    /\ invoked = <<>>
    /\ renders = 0
    /\ stack = <<>>
    /\ anchored = NoAnchored
    /\ interval = NoInterval

\* The class object n is constructed as.
class_of(n) == IF n = 0 THEN "FlowableFrame" ELSE "MockGraphicObject"

\* The positions object n is constructed at while the tree is built: one of
\* its own, so that sums along a chain tell the objects apart; object 1 may
\* also sit at the origin.
TreePositions(n) ==
    {Point(n + 1, 2 * n + 1, n % 2)} \cup (IF n = 1 THEN {Origin} ELSE {})

TreeLayout == layout_of(<<0, 1>>)

ConstructAny ==
    \E n \in Nodes, value \in Nodes \cup {None} : \E p \in TreePositions(n) :
        Construct(n, class_of(n), p, None, value, TreeLayout)

SetParentAny ==
    \E n \in Nodes, value \in Nodes \cup {None} : SetParent(n, value)

Next == ConstructAny \/ SetParentAny

Spec == Init /\ [][Next]_vars

\* --------------------------------------------- a tree, then its rendering
\* The objects of the tree that is rendered call by call: all but the last,
\* each at a position of its own.
StepNodes == 0 .. NumObjects - 1

ConstructStep ==
    \E n \in StepNodes, value \in StepNodes \cup {None} :
        Construct(n, class_of(n), Point(n + 1, 2 * n + 1, n % 2), None, value,
                  TreeLayout)

SetParentStep ==
    \E n \in StepNodes, value \in StepNodes \cup {None} : SetParent(n, value)

\* The tree is built and changed only before the first render() and never
\* while one is in progress.
BuildTree ==
    /\ stack = <<>>
    /\ renders = 0
    /\ (ConstructStep \/ SetParentStep)

\* One render() call is made on the tree as built.
RenderCallAny == renders = 0 /\ \E n \in Nodes : RenderCall(n)

RenderStep == RenderBody \/ RenderChild \/ RenderReturn

NextSteps == BuildTree \/ RenderCallAny \/ RenderStep

SpecSteps == Init /\ [][NextSteps]_vars

\* The interpreter goes on with a call in progress for as long as it can.
FairSteps == SpecSteps /\ WF_vars(RenderStep)

\* ---------------------------------------------------------- AnchoredPoint
\* The largest coordinate, in absolute value, of an operand.
MaxCoordinate == 1

Coordinates == (0 - MaxCoordinate) .. MaxCoordinate

\* The objects a point is anchored to; None anchors it to nothing.
Anchors == {None, 1, 2}

\* AnchoredPoint(x, y, parent); type(self)(...) makes one of the same type
AnchoredPoint(t, px, py, anchor) ==
    [type |-> t, x |-> px, y |-> py, parent |-> anchor]

AnchoredPoints ==
    {AnchoredPoint("AnchoredPoint", px, py, anchor) :
        px \in Coordinates, py \in Coordinates, anchor \in Anchors}

\* Plain Points, which have no parent, as the other operand.
PlainPoints ==
    {AnchoredPoint("Point", px, py, None) :
        px \in Coordinates, py \in Coordinates}

\* An addition that does not compare the parents.
AnchoredPoint_add_unchecked(self, other) ==
    IF other.type # self.type
    THEN [raised |-> "TypeError", value |-> NoValue]
    ELSE [raised |-> "none",
          value |-> AnchoredPoint(self.type, self.x + other.x,
                                  self.y + other.y, self.parent)]

\* AnchoredPoint.__add__
AnchoredPoint_add(self, other) ==
    IF other.type # self.type
    THEN [raised |-> "TypeError", value |-> NoValue]
    ELSE IF self.parent # other.parent
    THEN [raised |-> "AttributeError", value |-> NoValue]
    ELSE [raised |-> "none",
          value |-> AnchoredPoint(self.type, self.x + other.x,
                                  self.y + other.y, self.parent)]

\* AnchoredPoint.__sub__
AnchoredPoint_sub(self, other) ==
    IF other.type # self.type
    THEN [raised |-> "TypeError", value |-> NoValue]
    ELSE IF self.parent # other.parent
    THEN [raised |-> "AttributeError", value |-> NoValue]
    ELSE [raised |-> "none",
          value |-> AnchoredPoint(self.type, self.x - other.x,
                                  self.y - other.y, self.parent)]

\* self + other and self - other on the two operands at hand: the result
\* is kept, the operands are not assigned to.
Add ==
    /\ anchored.self # NoValue
    /\ \E r \in {AnchoredPoint_add(anchored.self, anchored.other)} :
          /\ anchored' = [anchored EXCEPT !.op = "add", !.result = r.value]
          /\ raised' = r.raised
    /\ UNCHANGED <<cls, parent, children, pos, breakable_width, interfaces,
                   layout_controllers, dispatched, invoked, renders, stack,
                   interval>>

Sub ==
    /\ anchored.self # NoValue
    /\ \E r \in {AnchoredPoint_sub(anchored.self, anchored.other)} :
          /\ anchored' = [anchored EXCEPT !.op = "sub", !.result = r.value]
          /\ raised' = r.raised
    /\ UNCHANGED <<cls, parent, children, pos, breakable_width, interfaces,
                   layout_controllers, dispatched, invoked, renders, stack,
                   interval>>

\* Two points have been made, the first an AnchoredPoint; nothing else
\* exists.
InitAnchored ==
    /\ cls = [n \in Nodes |-> "unconstructed"]
    /\ parent = [n \in Nodes |-> Unset]
    /\ children = [o \in Owners |-> {}]
    /\ pos = [n \in Nodes |-> Origin]
    /\ breakable_width = [n \in Nodes |-> 0]
    /\ interfaces = [n \in Nodes |-> {}]
    /\ layout_controllers = <<>>
    /\ raised = "none"
    /\ dispatched = [n \in Nodes |-> <<>>]
    /\ invoked = <<>>
    /\ renders = 0
    /\ stack = <<>>
    /\ \E a \in AnchoredPoints, b \in AnchoredPoints \cup PlainPoints :
           anchored =
               [self |-> a, other |-> b, op |-> "none", result |-> NoValue]
    /\ interval = NoInterval

NextAnchored == Add \/ Sub

SpecAnchored == InitAnchored /\ [][NextAnchored]_vars

\* --------------------------------------------------------------- Interval
\* The largest number of digits of a specifier's distance.
MaxDigits == 2

Digits == {"0", "1", "2", "3", "4", "5", "6", "7", "8", "9"}

\* int() of one digit
DigitValue ==
    [c \in Digits |->
        CHOOSE v \in 0 .. 9 :
            <<"0", "1", "2", "3", "4", "5", "6", "7", "8", "9">>[v + 1] = c]

\* The specifiers tried: a direction letter (one of them not a direction),
\* a quality letter and digits.
Specifiers ==
    {<<d, q>> \o ds :
        d \in {"a", "d", "u"}, q \in {"m", "M", "P", "d", "A"},
        ds \in UNION {[1 .. k -> Digits] : k \in 1 .. MaxDigits}}

\* _shorthand_regex: ^([ad])([mMPdA])([1-9]\d*)$
shorthand_match(specifier) ==
    /\ Len(specifier) >= 3
    /\ specifier[1] \in {"a", "d"}
    /\ specifier[2] \in {"m", "M", "P", "d", "A"}
    /\ specifier[3] \in Digits \ {"0"}
    /\ \A i \in 4 .. Len(specifier) : specifier[i] \in Digits

\* int(match.group(3))
RECURSIVE int_of(_)
int_of(ds) ==
    IF ds = <<>> THEN 0
    ELSE 10 * int_of(SubSeq(ds, 1, Len(ds) - 1)) + DigitValue[ds[Len(ds)]]

\* Interval.simple_distance
simple_distance(self) == ((self.distance - 1) % 7) + 1

perfectable_distances == {1, 4, 5}

\* Interval.__init__
Interval(specifier) ==
    IF ~shorthand_match(specifier)
    THEN [raised |-> "InvalidIntervalError", value |-> NoValue]
    ELSE LET self == [type |-> "Interval",
                      direction |-> specifier[1],
                      quality |-> specifier[2],
                      distance |-> int_of(SubSeq(specifier, 3,
                                                 Len(specifier)))]
         IN IF /\ simple_distance(self) \in perfectable_distances
               /\ self.quality \notin {"P", "d", "A"}
            THEN [raised |-> "InvalidIntervalError", value |-> NoValue]
            ELSE [raised |-> "none", value |-> self]

\* Interval(specifier) for the specifier at hand
NewInterval ==
    /\ interval.specifier # <<>>
    /\ \E r \in {Interval(interval.specifier)} :
          /\ interval' = [interval EXCEPT !.made = r.value]
          /\ raised' = r.raised
    /\ UNCHANGED <<cls, parent, children, pos, breakable_width, interfaces,
                   layout_controllers, dispatched, invoked, renders, stack,
                   anchored>>

\* A specifier has been written; nothing else exists.
InitInterval ==
    /\ cls = [n \in Nodes |-> "unconstructed"]
    /\ parent = [n \in Nodes |-> Unset]
    /\ children = [o \in Owners |-> {}]
    /\ pos = [n \in Nodes |-> Origin]
    /\ breakable_width = [n \in Nodes |-> 0]
    /\ interfaces = [n \in Nodes |-> {}]
    /\ layout_controllers = <<>>
    /\ raised = "none"
    /\ dispatched = [n \in Nodes |-> <<>>]
    /\ invoked = <<>>
    /\ renders = 0
    /\ stack = <<>>
    /\ anchored = NoAnchored
    /\ \E specifier \in Specifiers :
           interval = [specifier |-> specifier, made |-> NoValue]

NextInterval == NewInterval

SpecInterval == InitInterval /\ [][NextInterval]_vars

\* ------------------------------------------------- a laid out document
\* A document as it stands before rendering: the objects with the given
\* parents (Unset for one that is not constructed) and classes, the frame
\* (object 0) with the given lines laid out, object 1 at (x, 2) with
\* breakable width w, object 2 at (1, 1) with breakable width 2.
LaidOut(parents, classes, lines, x, w) ==
    /\ layout_controllers = lines
    /\ cls = classes
    /\ parent = parents
    /\ children = [o \in Owners |-> {n \in Nodes : parents[n] = o}]
    /\ pos = [n \in Nodes |->
                 IF n = 1 THEN Point(x, 2, 0)
                 ELSE IF n = 2 THEN Point(1, 1, 0)
                 ELSE Point(n + 1, 2 * n + 1, n % 2)]
    /\ breakable_width = [n \in Nodes |->
                             IF n = 1 THEN w ELSE IF n = 2 THEN 2 ELSE 0]
    /\ interfaces = [n \in Nodes |-> {}]
    /\ raised = "none"
    /\ dispatched = [n \in Nodes |-> <<>>]
    /\ invoked = <<>>
    /\ renders = 0
    /\ stack = <<>>
    /\ anchored = NoAnchored
    /\ interval = NoInterval

\* The frame below the Document, object 1 in the frame, object 2 below
\* object 1.
ChainTree ==
    [n \in Nodes |-> IF n = 0 THEN Doc
                     ELSE IF n = 1 THEN 0
                     ELSE IF n = 2 THEN 1 ELSE Unset]

\* The same with object 3 below the given owner.
BranchingTree(owner) == [ChainTree EXCEPT ![3] = owner]

MockClasses(parents) ==
    [n \in Nodes |->
        IF parents[n] = Unset THEN "unconstructed" ELSE class_of(n)]

\* The documents rendering starts from:
\*  - the chain with any lines, object 1 at any local x from just left of
\*    the frame to just right of its end, with any breakable width;
\*  - on two lines, the chain with object 3 as a second child of object 1
\*    or as an object of its own below the Document;
\*  - the chain on two lines with object 1 of a class that lacks _render_*
\*    methods.
InitRender ==
    \/ \E lines \in Layouts :
       \E x \in -1 .. MaxLines * LiveWidth + 1, w \in 0 .. MaxWidth :
           /\ LaidOut(ChainTree, MockClasses(ChainTree), lines, x, w)
           /\ x <= total_length + 1
    \/ \E owner \in {1, Doc} : \E x \in 0 .. 2, w \in {0, 2, 4} :
           LaidOut(BranchingTree(owner), MockClasses(BranchingTree(owner)),
                   TreeLayout, x, w)
    \/ \E c \in {"GraphicObject", "CompleteOnlyObject"} :
       \E x \in {0, 2}, w \in {0, 1, 4} :
           LaidOut(ChainTree, [MockClasses(ChainTree) EXCEPT ![1] = c],
                   TreeLayout, x, w)

RenderAny == \E n \in Nodes : Render(n)

NextRender == RenderAny

SpecRender == InitRender /\ [][NextRender]_vars

\* ------------------------------------------------------- tree vocabulary
\* The k-th owner up the parent chain of m (m itself for k = 0); None above
\* the Document.
RECURSIVE ancestor_at(_, _)
ancestor_at(m, k) ==
    IF k = 0 THEN m
    ELSE IF m \notin Nodes THEN None
    ELSE ancestor_at(parent[m], k - 1)

Depths == 1 .. Cardinality(Nodes)

Descendants(n) ==
    {m \in Constructed : \E k \in Depths : ancestor_at(m, k) = n}

Acyclic == \A n \in Constructed : n \notin Descendants(n)

IsFrame(o) == o \in Nodes /\ cls[o] = "FlowableFrame"

\* The parent chain of n meets a frame k steps up and none before.
FirstFrameAt(n, k) ==
    /\ IsFrame(ancestor_at(n, k))
    /\ \A j \in 1 .. k - 1 : ~IsFrame(ancestor_at(n, j))

\* The parent chain of n reaches the Document without meeting a frame.
ReachesDocumentUnframed(n) ==
    \E k \in Depths :
        /\ ancestor_at(n, k) = Doc
        /\ \A j \in 1 .. k - 1 : ~IsFrame(ancestor_at(n, j))

Rooted(n) == \E k \in Depths : ancestor_at(n, k) = Doc

\* The sum of the local positions of n and its ancestors, by depth.
RECURSIVE SumOfPositions(_, _)
SumOfPositions(n, k) ==
    IF ancestor_at(n, k) \notin Nodes THEN Origin
    ELSE PointAdd(pos[ancestor_at(n, k)], SumOfPositions(n, k + 1))

AbsolutePosition(n) == SumOfPositions(n, 0)

IsOneToOne(s) == \A i, j \in 1 .. Len(s) : s[i] = s[j] => i = j

Range(s) == {s[i] : i \in 1 .. Len(s)}

\* --------------------------------------------------------------- claims
\* C1, as stated: assigning an object's parent to the object itself or to
\* one of its descendants ends with an error and changes no parent and no
\* children set.
C1_CycleRejected ==
    [][\A n \in Nodes : \A value \in {n} \cup Descendants(n) :
          SetParent(n, value)
              => (raised' # "none" /\ parent' = parent /\ children' = children)]_vars

\* C1, amended: such an assignment raises nothing and is carried out like any
\* other: the object leaves its old parent's children, its parent becomes
\* the given object, whose children gain it, and no other object's parent
\* and no other children set changes.
C1_CycleAccepted ==
    [][\A n \in Nodes : \A value \in {n} \cup Descendants(n) :
          SetParent(n, value)
              => /\ raised' = "none"
                 /\ parent'[n] = value
                 /\ n \in children'[value]
                 /\ parent[n] # value => n \notin children'[parent[n]]
                 /\ \A m \in Nodes \ {n} : parent'[m] = parent[m]
                 /\ \A o \in Owners \ {value, parent[n]} :
                        children'[o] = children[o]]_vars

\* C1 witness: an object is its own descendant, so such an assignment was made.
C1_CycleMade ==
    \E n \in Constructed : n \in Descendants(n) /\ raised = "none"

\* C2: an object is in the children of an owner (object or Document) exactly
\* when that owner is its parent, so it is in exactly one children set.
C2_ChildrenMirrorParent ==
    \A n \in Nodes, p \in Owners : n \in children[p] <=> parent[n] = p

\* C2 witness: two objects are each other's parent, which takes a
\* re-parenting; neither is still listed by the Document.
C2_Reparented ==
    \E n, p \in Constructed :
        /\ n # p
        /\ parent[n] = p /\ parent[p] = n
        /\ n \in children[p] /\ p \in children[n]
        /\ children[Doc] \cap {n, p} = {}

\* C3, as stated: in an acyclic tree all_descendants yields every transitive
\* descendant exactly once and nothing else.
C3_AllDescendantsComplete ==
    Acyclic =>
        \A n \in Constructed : \A s \in all_descendants(n) :
            IsOneToOne(s) /\ Range(s) = Descendants(n)

\* C4: in an acyclic tree, in every sequence all_descendants yields, the
\* descendants of a child c that the sequence holds stand contiguously
\* immediately before c.
C4_PostOrder ==
    Acyclic =>
        \A n \in Constructed : \A s \in all_descendants(n) :
            \A c \in children[n] :
                \E i \in 1 .. Len(s) :
                    /\ s[i] = c
                    /\ \A j \in 1 .. Len(s) : s[j] = c => j = i
                    /\ LET held == {j \in 1 .. Len(s) : s[j] \in Descendants(c)}
                       IN held = (i - Cardinality(held)) .. (i - 1)

\* C4 witness: an acyclic tree where an object has two children, one of
\* them with a child of its own.
C4_TwoLevels ==
    /\ Acyclic
    /\ \E n \in Constructed : \E c \in children[n] :
           /\ Cardinality(children[n]) >= 2
           /\ children[c] # {}

\* C5: frame is the nearest proper ancestor that is a FlowableFrame, and
\* None when the parent chain reaches the Document without meeting one;
\* is_in_flowable is true exactly when such an ancestor exists.
C5_FrameIsNearest ==
    \A n \in Constructed :
        /\ \A k \in Depths : FirstFrameAt(n, k) => frame(n) = ancestor_at(n, k)
        /\ ReachesDocumentUnframed(n) => frame(n) = None
        /\ frame(n) # Diverges =>
               (is_in_flowable(n) <=> \E k \in Depths : FirstFrameAt(n, k))

\* C5 witness: one object has the frame two steps up, the frame itself and
\* another object have none above them.
C5_FramedAndUnframed ==
    \E n, m \in Constructed :
        /\ ~IsFrame(parent[n]) /\ IsFrame(ancestor_at(n, 2))
        /\ frame(n) = ancestor_at(n, 2)
        /\ ~IsFrame(m) /\ frame(m) = None /\ ~is_in_flowable(m)
        /\ frame(ancestor_at(n, 2)) = None

\* C6: for objects whose chains reach the Document and whose document
\* positions exist, map_between_items(a, b) is the componentwise negation
\* of map_between_items(b, a).
C6_Antisymmetric ==
    \A a, b \in Constructed :
        (Rooted(a) /\ Rooted(b) /\ doc_pos_defined(a) /\ doc_pos_defined(b))
            => map_between_items(a, b) = PointNeg(map_between_items(b, a))

\* C6 witness: two rooted objects, one below the other, with a delta that is
\* not zero in x, y and page.
C6_NonzeroDelta ==
    \E a, b \in Constructed :
        /\ Rooted(a) /\ Rooted(b) /\ doc_pos_defined(a) /\ doc_pos_defined(b)
        /\ parent[a] \in Nodes
        /\ map_between_items(a, b).x # 0
        /\ map_between_items(a, b).y # 0
        /\ map_between_items(a, b).page # 0

\* C7: for objects outside any frame, map_between_items(source, destination)
\* is the destination's absolute position minus the source's, the absolute
\* position being the sum of the local positions up the parent chain.
C7_DeltaOfAbsolutePositions ==
    \A s, d \in Constructed :
        (frame(s) = None /\ frame(d) = None)
            => map_between_items(s, d) =
                   PointSub(AbsolutePosition(d), AbsolutePosition(s))

\* C7 witness: a source two levels below the Document, both levels with a
\* position that is not the origin, and a destination elsewhere.
C7_ThroughParent ==
    \E s, d \in Constructed :
        /\ frame(s) = None /\ frame(d) = None
        /\ parent[s] \in Nodes /\ parent[parent[s]] = Doc
        /\ pos[s] # Origin /\ pos[parent[s]] # Origin
        /\ d # s /\ d # parent[s]
        /\ map_between_items(s, d) # Origin

\* ----------------------------------------------------- render vocabulary
\* The last render() ran the body of render() on object n, inside a frame,
\* and n's class implements the four _render_* methods.
RenderedInFrame(n) ==
    /\ \E i \in 1 .. Len(invoked) : invoked[i] = n
    /\ IsFrame(frame(n))
    /\ cls[n] = "MockGraphicObject"

\* The frame-local x lies on line i: from the line's start up to, not
\* including, its end.
OnLine(x, i) ==
    /\ layout_controllers[i].local_x <= x
    /\ x < line_end(i)

LineIndexes == 1 .. Len(layout_controllers)

Ops(n) == [i \in 1 .. Len(dispatched[n]) |-> dispatched[n][i].op]

\* before-break, m spanning continuations, after-break
SplitOps(m) ==
    <<"before_break">> \o [i \in 1 .. m |-> "spanning_continuation"]
                       \o <<"after_break">>

RECURSIVE SumOfWidths(_)
SumOfWidths(calls) ==
    IF calls = <<>> THEN 0
    ELSE (Head(calls).stop.x - Head(calls).start.x) + SumOfWidths(Tail(calls))

\* C8, as stated: an object in a frame whose frame-local x lies on a line
\* with x + breakable_width <= that line's end gets exactly one
\* render-complete call and no partial call.
C8_FitsInclusive ==
    \A n \in Nodes : \A i \in LineIndexes :
        (/\ RenderedInFrame(n)
         /\ OnLine(pos_in_frame_of(n).x, i)
         /\ pos_in_frame_of(n).x + breakable_width[n] <= line_end(i))
            => Ops(n) = <<"complete">>

\* C8, amended: the same when x + breakable_width is strictly less than the
\* line's end.
C8_FitsStrictly ==
    \A n \in Nodes : \A i \in LineIndexes :
        (/\ RenderedInFrame(n)
         /\ OnLine(pos_in_frame_of(n).x, i)
         /\ pos_in_frame_of(n).x + breakable_width[n] < line_end(i))
            => Ops(n) = <<"complete">>

\* C8 witness: an object of nonzero breakable width, ending one unit before
\* its line's end, was rendered with one render-complete call at its
\* document position.
C8_FastPathTaken ==
    \E n \in Nodes : \E i \in LineIndexes :
        /\ RenderedInFrame(n)
        /\ OnLine(pos_in_frame_of(n).x, i)
        /\ breakable_width[n] > 0
        /\ pos_in_frame_of(n).x + breakable_width[n] = line_end(i) - 1
        /\ Ops(n) = <<"complete">>
        /\ dispatched[n][1].start = doc_pos_of(n)

\* C9: an object in a frame whose breakable span starts on line i and ends
\* on a later line j (after j's start, at most at j's end), so that it
\* covers k = j - i + 1 >= 2 lines, gets exactly one before-break, k - 2
\* spanning-continuation and one after-break call, and no render-complete.
C9_OneCallPerLine ==
    \A n \in Nodes : \A i, j \in LineIndexes :
        (/\ RenderedInFrame(n)
         /\ OnLine(pos_in_frame_of(n).x, i)
         /\ j > i
         /\ layout_controllers[j].local_x
                < pos_in_frame_of(n).x + breakable_width[n]
         /\ pos_in_frame_of(n).x + breakable_width[n] <= line_end(j))
            => Ops(n) = SplitOps(j - i - 1)

\* C9 witness: an object that starts inside the first line and ends inside
\* the third was rendered with three calls.
C9_ThreeLines ==
    \E n \in Nodes :
        /\ RenderedInFrame(n)
        /\ Len(layout_controllers) >= 3
        /\ OnLine(pos_in_frame_of(n).x, 1)
        /\ OnLine(pos_in_frame_of(n).x + breakable_width[n], 3)
        /\ layout_controllers[3].local_x
               < pos_in_frame_of(n).x + breakable_width[n]
        /\ Ops(n) = <<"before_break", "spanning_continuation", "after_break">>

\* C10: when the split path is taken (the calls for the object start with a
\* before-break), the widths stop.x - start.x of all its calls sum to its
\* breakable_width.
C10_WidthsSumToBreakableWidth ==
    \A n \in Nodes :
        (/\ RenderedInFrame(n)
         /\ dispatched[n] # <<>>
         /\ dispatched[n][1].op = "before_break")
            => SumOfWidths(dispatched[n]) = breakable_width[n]

\* C10 witness: a split with a spanning continuation, every segment of
\* nonzero width.
C10_SplitInThree ==
    \E n \in Nodes :
        /\ RenderedInFrame(n)
        /\ Len(dispatched[n]) = 3
        /\ dispatched[n][1].op = "before_break"
        /\ \A i \in 1 .. 3 : dispatched[n][i].stop.x > dispatched[n][i].start.x
        /\ SumOfWidths(dispatched[n]) = breakable_width[n]

\* The line a frame-local x starts on: the one it lies on, the last line for
\* an x at the very end of the frame.
StartingLine(x) ==
    CHOOSE i \in LineIndexes :
        /\ layout_controllers[i].local_x <= x
        /\ x < line_end(i) \/ i = Len(layout_controllers)

\* The start of line i on its page, moved down by y.
LineStart(i, y) ==
    Point(layout_controllers[i].pos.x,
          layout_controllers[i].pos.y + y,
          layout_controllers[i].pos.page)

Min(a, b) == IF a <= b THEN a ELSE b

\* C11: when an object is split, its before-break segment starts at the
\* object's document position and stops, at the same height and page, at the
\* page x where its starting line ends; the k-th segment after it starts at
\* the start of the k-th line after the starting line (the last line, when
\* the lines run out), moved down by the object's frame-local y, on that
\* line's page.
C11_SegmentPositions ==
    \A n \in Nodes :
        (/\ RenderedInFrame(n)
         /\ dispatched[n] # <<>>
         /\ dispatched[n][1].op = "before_break")
            => \E i \in {StartingLine(pos_in_frame_of(n).x)} :
                 /\ dispatched[n][1].start = doc_pos_of(n)
                 /\ dispatched[n][1].stop =
                        Point(layout_controllers[i].pos.x
                                  + length(layout_controllers[i]),
                              doc_pos_of(n).y, doc_pos_of(n).page)
                 /\ \A k \in 2 .. Len(dispatched[n]) :
                        dispatched[n][k].start =
                            LineStart(Min(i + k - 1, Len(layout_controllers)),
                                      pos_in_frame_of(n).y)

\* C11 witness: lines of length 3 at (0, 0) and (0, 5) on page 0 and an
\* object at frame-local (2, 2) of breakable width 2: a before-break of
\* width 1 from (2, 2) and an after-break of width 1 from (0, 7), page 0.
C11_SplitOverTwoLines ==
    \E n \in Nodes :
        /\ RenderedInFrame(n)
        /\ Len(layout_controllers) >= 2
        /\ layout_controllers[1].pos = Point(0, 0, 0)
        /\ layout_controllers[2].pos = Point(0, LineSpacing, 0)
        /\ pos_in_frame_of(n) = Point(2, 2, 0)
        /\ breakable_width[n] = 2
        /\ Len(dispatched[n]) = 2
        /\ dispatched[n][1] =
               Dispatch("before_break", 0, Point(2, 2, 0),
                        Point(LiveWidth, 2, 0), 1)
        /\ dispatched[n][2] =
               Dispatch("after_break", LiveWidth - 2,
                        Point(0, LineSpacing + 2, 0),
                        Point(2 - (LiveWidth - 2), LineSpacing + 2, 0), 2)

AtBreak(x) ==
    \E i \in LineIndexes : i >= 2 /\ x = layout_controllers[i].local_x

\* C13, as stated: an object of nonzero breakable width whose frame-local x
\* is at a break boundary is rendered without error, and its first call is a
\* before-break of zero length (start equal to stop).
C13_ZeroLengthBeforeBreak ==
    \A n \in Nodes :
        (/\ RenderedInFrame(n)
         /\ breakable_width[n] > 0
         /\ AtBreak(pos_in_frame_of(n).x))
            => /\ invoked[Len(invoked)] = n => raised = "none"
               /\ dispatched[n] # <<>>
               /\ dispatched[n][1].op = "before_break"
               /\ dispatched[n][1].start = dispatched[n][1].stop

\* C14: a render() that reaches an object in a frame whose frame-local x is
\* negative or greater than the end of the last line ends with
\* OutOfBoundsError, makes no _render_* call for that object, and leaves the
\* object's interfaces, every parent and children set, every position and
\* width and the frame's lines as they were.
C14_OutOfBoundsBeforeDispatch ==
    [][\A n \in Nodes :
          (/\ renders' = renders + 1
           /\ n \in Range(invoked')
           /\ IsFrame(frame(n))
           /\ \/ pos_in_frame_of(n).x < 0
              \/ pos_in_frame_of(n).x > total_length)
              => /\ raised' = "OutOfBoundsError"
                 /\ dispatched'[n] = <<>>
                 /\ interfaces'[n] = interfaces[n]
                 /\ parent' = parent /\ children' = children
                 /\ pos' = pos /\ breakable_width' = breakable_width
                 /\ layout_controllers' = layout_controllers]_vars

\* C14 witness: a render() of the frame rendered the frame and its child and
\* ended with OutOfBoundsError at the grandchild, which lies beyond the last
\* line and got no call and no interface.
C14_BeyondLastLine ==
    \E n \in Nodes :
        /\ raised = "OutOfBoundsError"
        /\ Len(invoked) = 3
        /\ invoked[3] = n
        /\ IsFrame(frame(n))
        /\ pos_in_frame_of(n).x > total_length
        /\ dispatched[n] = <<>>
        /\ interfaces[n] = {}
        /\ interfaces[parent[n]] # {}

\* C15: adding or subtracting two AnchoredPoints with different parents ends
\* with an error and gives no result; with equal parents it gives an
\* AnchoredPoint of that parent whose x and y are the sums (the differences)
\* of the operands' x and y; either way both operands stay as they were.
C15_SameParentArithmetic ==
    [][(/\ anchored' # anchored
        /\ anchored.self.type = "AnchoredPoint"
        /\ anchored.other.type = "AnchoredPoint")
          => /\ anchored'.self = anchored.self
             /\ anchored'.other = anchored.other
             /\ IF anchored.self.parent # anchored.other.parent
                THEN raised' # "none" /\ anchored'.result = NoValue
                ELSE /\ raised' = "none"
                     /\ anchored'.result.type = "AnchoredPoint"
                     /\ anchored'.result.parent = anchored.self.parent
                     /\ anchored'.op = "add" =>
                            /\ anchored'.result.x
                                   = anchored.self.x + anchored.other.x
                            /\ anchored'.result.y
                                   = anchored.self.y + anchored.other.y
                     /\ anchored'.op = "sub" =>
                            /\ anchored'.result.x
                                   = anchored.self.x - anchored.other.x
                            /\ anchored'.result.y
                                   = anchored.self.y - anchored.other.y]_vars

\* C15 witness: a difference of two AnchoredPoints anchored to the same
\* object that differs from their sum in x and in y.
C15_DifferenceTaken ==
    /\ anchored.op = "sub"
    /\ raised = "none"
    /\ anchored.self.parent = 1 /\ anchored.other.parent = 1
    /\ anchored.other.x # 0 /\ anchored.other.y # 0
    /\ anchored.result =
           AnchoredPoint("AnchoredPoint", anchored.self.x - anchored.other.x,
                         anchored.self.y - anchored.other.y, 1)

\* C16, as stated: before the first render() every object's interfaces are
\* empty, and an object the last render() rendered holds exactly the
\* interfaces of that pass, one for each call made for it.
C16_OnlyLastPass ==
    /\ renders = 0 => \A n \in Nodes : interfaces[n] = {}
    /\ \A n \in Range(invoked) :
           interfaces[n] = {[pass |-> renders, call |-> i] :
                               i \in 1 .. Len(dispatched[n])}

\* The objects of the subtree the last render() was called on.
RenderedSubtree == {invoked[1]} \cup Descendants(invoked[1])

\* The only call for object n is a render-complete at its document position.
OneComplete(n) ==
    dispatched[n] = <<Dispatch("complete", 0, doc_pos_of(n), doc_pos_of(n), 0)>>

LacksPartials(c) == c \in {"GraphicObject", "CompleteOnlyObject"}

\* C18: when render() reaches an object in a frame whose class lacks the
\* partial _render_* methods and whose breakable span, starting on a line,
\* reaches or passes that line's end, the first partial call raises
\* NotImplementedError: the render() call ends there with that error, the
\* object gets no interface and no object after it is rendered.
C18_PartialCallsRaise ==
    \A n \in Range(invoked) : \A i \in LineIndexes :
        (/\ LacksPartials(cls[n])
         /\ IsFrame(frame(n))
         /\ OnLine(pos_in_frame_of(n).x, i)
         /\ pos_in_frame_of(n).x + breakable_width[n] >= line_end(i))
            => /\ raised = "NotImplementedError"
               /\ invoked[Len(invoked)] = n
               /\ dispatched[n] = <<>>
               /\ interfaces[n] = {}

\* C18 witness: a render() of the frame reached an object that implements
\* _render_complete only and spans past its line's end, and ended there
\* with NotImplementedError, the object's child not rendered.
C18_SplitNotImplemented ==
    \E n \in Nodes :
        /\ cls[n] = "CompleteOnlyObject"
        /\ IsFrame(frame(n))
        /\ OnLine(pos_in_frame_of(n).x, 1)
        /\ pos_in_frame_of(n).x + breakable_width[n] > line_end(1)
        /\ invoked = <<0, n>>
        /\ children[n] # {}
        /\ raised = "NotImplementedError"
        /\ dispatched[n] = <<>>

\* C19, as stated: whatever tree the constructions and parent assignments
\* built, a render() call in progress is eventually over.
C19_RenderTerminates == (stack # <<>>) ~> (stack = <<>>)

\* C19, amended: a render() call in progress in a tree where no object is its
\* own ancestor is eventually over.
C19_AcyclicRenderTerminates == (stack # <<>> /\ Acyclic) ~> (stack = <<>>)

\* C19 witness: in a tree without a cycle a render() call that went three
\* objects deep has returned without an error.
C19_DeepRenderReturned ==
    /\ renders > 0
    /\ stack = <<>>
    /\ raised = "none"
    /\ Acyclic
    /\ Len(invoked) >= 3
    /\ parent[invoked[3]] = invoked[2]
    /\ parent[invoked[2]] = invoked[1]

\* C20, as stated: simple_distance of every Interval that can be made lies
\* in 1..7; it is 2 for Interval('aM10') and 5 for Interval('dP12').
C20_SimpleDistanceAsDocumented ==
    interval.made # NoValue =>
        /\ simple_distance(interval.made) \in 1 .. 7
        /\ interval.specifier = <<"a", "M", "1", "0">>
               => simple_distance(interval.made) = 2
        /\ interval.specifier = <<"d", "P", "1", "2">>
               => simple_distance(interval.made) = 5

\* C21, as stated: when an object is split, starting on line i0, its calls
\* are one before-break on i0, then spanning continuations on the lines
\* i0+1, i0+2, ... in this order with none left out, then one after-break,
\* on the line that follows the last spanning one; that line is a line
\* after i0, it is at least as long as what remains of the width when it is
\* reached, and no line between i0 and it is.
C21_FixedOrder ==
    \A n \in Nodes :
        (/\ RenderedInFrame(n)
         /\ dispatched[n] # <<>>
         /\ dispatched[n][1].op = "before_break")
            => \E i0 \in {StartingLine(pos_in_frame_of(n).x)} :
               \E last \in {Len(dispatched[n])} :
               \E reach \in {pos_in_frame_of(n).x + breakable_width[n]} :
                 /\ last >= 2
                 /\ Ops(n) = SplitOps(last - 2)
                 /\ \A k \in 1 .. last : dispatched[n][k].line = i0 + k - 1
                 /\ i0 + last - 1 \in LineIndexes
                 /\ length(layout_controllers[i0 + last - 1])
                        >= reach - layout_controllers[i0 + last - 1].local_x
                 /\ \A j \in (i0 + 1) .. (i0 + last - 2) :
                        length(layout_controllers[j])
                            < reach - layout_controllers[j].local_x

\* C22: the local_start_x of every call made for a split object is the sum
\* of the widths of the calls made before it for that object in the same
\* render: 0 for the before-break and, for every later call, the part of
\* the breakable width that lies before the line the call is made on (from
\* the object's frame-local x to where the line before ended).
C22_LocalStartIsWidthPlaced ==
    \A n \in Nodes :
        (/\ RenderedInFrame(n)
         /\ dispatched[n] # <<>>
         /\ dispatched[n][1].op = "before_break")
            => \E i0 \in {StartingLine(pos_in_frame_of(n).x)} :
                 /\ dispatched[n][1].local_start_x = 0
                 /\ \A k \in 1 .. Len(dispatched[n]) :
                        dispatched[n][k].local_start_x
                            = SumOfWidths(SubSeq(dispatched[n], 1, k - 1))
                 /\ \A k \in 2 .. Len(dispatched[n]) :
                        dispatched[n][k].local_start_x
                            = line_end(i0 + k - 2) - pos_in_frame_of(n).x

\* C22 witness: an object split into a before-break, a spanning continuation
\* and an after-break, each of nonzero width, whose second and third calls
\* carry different nonzero offsets.
C22_ThreeOffsets ==
    \E n \in Nodes :
        /\ RenderedInFrame(n)
        /\ Ops(n) = SplitOps(1)
        /\ \A k \in 1 .. 3 : dispatched[n][k].stop.x > dispatched[n][k].start.x
        /\ dispatched[n][1].local_start_x = 0
        /\ dispatched[n][2].local_start_x > 0
        /\ dispatched[n][3].local_start_x > dispatched[n][2].local_start_x
        /\ dispatched[n][3].local_start_x < breakable_width[n]

\* The length of the k-th segment dispatched for object n: the whole
\* breakable width for a render-complete, else from start to stop.
SegmentLength(n, k) ==
    IF dispatched[n][k].op = "complete" THEN breakable_width[n]
    ELSE dispatched[n][k].stop.x - dispatched[n][k].start.x

\* The line the k-th segment of object n is drawn on: the object's starting
\* line for a render-complete, else the line the call was made on.
SegmentLine(n, k) ==
    IF dispatched[n][k].op = "complete"
    THEN StartingLine(pos_in_frame_of(n).x)
    ELSE dispatched[n][k].line

\* C23, as stated: in one render of an object in a frame no line gets two
\* of the object's segments, and no segment is longer than the line it is
\* drawn on, wherever in the frame the object starts and however wide it is.
C23_OneSegmentPerLine ==
    \A n \in Nodes :
        RenderedInFrame(n)
            => /\ \A k, l \in 1 .. Len(dispatched[n]) :
                      k # l => SegmentLine(n, k) # SegmentLine(n, l)
               /\ \A k \in 1 .. Len(dispatched[n]) :
                      SegmentLength(n, k)
                          <= length(layout_controllers[SegmentLine(n, k)])

\* C24: a render() call, whether it returns or ends with an exception,
\* leaves every object's parent, children, pos and breakable_width and the
\* frame's layout controllers as they were; each object keeps the interfaces
\* it had and gains one for each call dispatched for it.
C24_RenderLeavesTreeUnchanged ==
    [][renders' # renders =>
          /\ parent' = parent
          /\ children' = children
          /\ pos' = pos
          /\ breakable_width' = breakable_width
          /\ layout_controllers' = layout_controllers
          /\ \A n \in Nodes :
                 /\ interfaces[n] \subseteq interfaces'[n]
                 /\ Cardinality(interfaces'[n])
                        = Cardinality(interfaces[n]) + Len(dispatched'[n])]_vars

\* C24 witness: a render() of the frame that ended with an exception in its
\* child after the frame got an interface, and the chain of three objects
\* below the Document stands as it was built.
C24_FailedRenderKeptTree ==
    /\ renders > 0
    /\ raised = "NotImplementedError"
    /\ invoked = <<0, 1>>
    /\ interfaces[0] # {}
    /\ parent[0] = Doc /\ parent[1] = 0 /\ parent[2] = 1
    /\ children[Doc] = {0} /\ children[0] = {1} /\ children[1] = {2}
    /\ breakable_width[2] = 2
    /\ pos[2] = Point(1, 1, 0)
    /\ layout_controllers = TreeLayout

====
